---- MODULE Spec2Model ----
(***************************************************************************)
(* Release metrics of releases.py: the lead_time_prs report (which release *)
(* first contains each merged pull request, and how long the pull request  *)
(* waited for it), the release_plot report, and the GitHub response cache  *)
(* both read through.                                                      *)
(*                                                                         *)
(* Python values are written as follows.  A string is the sequence of its  *)
(* characters.  A value that may be None is a sequence of length at most   *)
(* one: << >> is None, <<v>> is v.  An ISO 8601 timestamp is the record of *)
(* its date part (a day number) and its time part (an hour of that day).   *)
(***************************************************************************)
EXTENDS Integers, Sequences, FiniteSets, TLC

VARIABLES
    pc,                  \* position of the running report
    exitStatus,          \* << >> while running, <<1>> after sys.exit(1)
    cache,               \* the .cache folder: cache file |-> stored JSON
    netCalls,            \* requests.get calls of this run: <<url, page>>
    cloned,              \* repositories cloned under .cache/git
    repos,               \* lead_time_prs / release_plot: repos
    repoIdx,             \* index in repos of the repository being processed
    releases_published,  \* lead_time_prs: tag_name |-> published_at
    prs,                 \* lead_time_prs: the closed pull requests (numbers)
    prIdx,               \* how many of prs the loop has taken
    pr,                  \* << >> or <<the pull request being processed>>
    describeCalls,       \* git describe queries issued in this run
    reference,           \* << >> or <<answer of the last git describe>>
    release,             \* << >> or <<what belongs_to returned>>
    prs_data_list,       \* lead_time_prs: prs_data_list
    stats,               \* lead_time_prs: the rows of the stats frame
    prs_all,             \* lead_time_prs: prs_all, in insertion order
    charts,              \* figures saved, in the order saved
    printed,             \* the statistics printed at the end of the run
    data                 \* release_plot: data

vars == <<pc, exitStatus, cache, netCalls, cloned, repos, repoIdx,
          releases_published, prs, prIdx, pr, describeCalls, reference,
          release, prs_data_list, stats, prs_all, charts, printed, data>>

----------------------------------------------------------------------------
(* Bounds of the model. *)

\* Closed pull requests in the snapshot, over all repositories.
MaxPrs == 3

\* Items on one page of an API response (per_page, scaled down).
PageSize == 2

\* Steps in the path git describe prints after the tag.
MaxSteps == 3

\* Hours in a day: the unit of timedelta64[D].
HoursPerDay == 24

----------------------------------------------------------------------------
(* Strings. *)

Digits == {"0", "1", "2", "3", "4", "5", "6", "7", "8", "9"}

\* The code point of a character: the order Python compares strings by.
Ord(c) ==
    CASE c = "." -> 46
      [] c = "0" -> 48 [] c = "1" -> 49 [] c = "2" -> 50 [] c = "3" -> 51
      [] c = "4" -> 52 [] c = "5" -> 53 [] c = "6" -> 54 [] c = "7" -> 55
      [] c = "8" -> 56 [] c = "9" -> 57
      [] c = "^" -> 94
      [] c = "i" -> 105 [] c = "p" -> 112 [] c = "v" -> 118 [] c = "w" -> 119
      [] c = "~" -> 126

RECURSIVE StrLess(_, _)
\* s < t for Python strings: lexicographic by code point.
StrLess(s, t) ==
    IF t = << >> THEN FALSE
    ELSE IF s = << >> THEN TRUE
    ELSE IF s[1] = t[1] THEN StrLess(Tail(s), Tail(t))
    ELSE Ord(s[1]) < Ord(t[1])

RECURSIVE Join(_)
\* The concatenation of a sequence of sequences.
Join(ss) == IF ss = << >> THEN << >> ELSE Head(ss) \o Join(Tail(ss))

RECURSIVE Contains(_, _)
\* needle in haystack, for Python strings (here: sequences of words).
Contains(haystack, needle) ==
    IF Len(needle) > Len(haystack) THEN FALSE
    ELSE IF SubSeq(haystack, 1, Len(needle)) = needle THEN TRUE
    ELSE Contains(Tail(haystack), needle)

\* Truthiness of an optional string or list: None, "" and [] are false.
Truthy(opt) == opt # << >> /\ opt[1] # << >>

----------------------------------------------------------------------------
(* Module constants. *)

GITHUB_API_ROOT == "https://api.github.com"
GITHUB_ORG == "tektoncd"
GITHUB_CACHE == ".cache"

\* GITHUB_API_REPOS.format(org=...), GITHUB_API_RELEASES.format(...),
\* GITHUB_API_PRS.format(...): a URL is the sequence of its parts.
ReposUrl == <<GITHUB_API_ROOT, "/orgs/", GITHUB_ORG, "/repos">>
ReleasesUrl(repo) ==
    <<GITHUB_API_ROOT, "/repos/", GITHUB_ORG, "/", repo, "/releases?per_page=100">>
PrsUrl(repo, state) ==
    <<GITHUB_API_ROOT, "/repos/", GITHUB_ORG, "/", repo, "/pulls?per_page=100&state=", state>>

----------------------------------------------------------------------------
(* What the outside world may hold: the GitHub API and the local clones. *)

Iso(d, h) == [date |-> d, hour |-> h]

TagA == <<"v", "0", ".", "9", ".", "0">>
TagB == <<"v", "0", ".", "1", "0", ".", "0">>
TagWip == <<"w", "i", "p">>

ReleaseA == [tag_name |-> TagA, published_at |-> Iso(2, 2)]
ReleaseB == [tag_name |-> TagB, published_at |-> Iso(4, 4)]

\* The release lists a repository may have (GitHub lists the newest first).
ReleaseLists == { << >>, <<ReleaseA>>, <<ReleaseB, ReleaseA>> }

\* The repository lists the organisation may have.
RepoLists == { << >>, <<"pipeline">>, <<"pipeline", "triggers">> }

\* The timestamps a closed pull request may carry; merged_at is null for a
\* pull request closed without merging.
PrTimings ==
    { [created_at |-> Iso(0, 0),  merged_at |-> << >>],
      [created_at |-> Iso(0, 0),  merged_at |-> <<Iso(1, 6)>>],
      [created_at |-> Iso(1, 16), merged_at |-> <<Iso(2, 12)>>] }

\* str(GitCommandError) of a failed git describe, as its words.
CannotDescribeError ==
    [ok |-> FALSE, text |-> <<"stderr:", "fatal:", "cannot", "describe", "sha">>,
     tag |-> << >>]
OtherGitError ==
    [ok |-> FALSE, text |-> <<"stderr:", "fatal:", "not", "a", "git", "repository">>,
     tag |-> << >>]

\* The decimal digits of n > 0.
RECURSIVE Decimal(_)
Decimal(n) ==
    LET d == <<"0", "1", "2", "3", "4", "5", "6", "7", "8", "9">>[(n % 10) + 1]
    IN  IF n < 10 THEN <<d>> ELSE Decimal(n \div 10) \o <<d>>

\* One step of a git name-rev path: ~N (N first parents back) or ^N (the
\* N-th parent).
Generations == {1, 2, 12}
Parents == {2, 3}
RevSteps ==
    { <<"~">> \o Decimal(n) : n \in Generations } \cup
    { <<"^">> \o Decimal(n) : n \in Parents }

RECURSIVE StepSeqs(_)
\* The paths of exactly n steps, as sequences of steps.  Two steps of the
\* same kind never follow each other: ~1~2 is printed ~3.
StepSeqs(n) ==
    IF n = 0 THEN { << >> }
    ELSE { Append(ps[1], ps[2]) :
             ps \in { x \in StepSeqs(n - 1) \X RevSteps :
                        x[1] = << >> \/ x[1][Len(x[1])][1] # x[2][1] } }

\* What git describe --contains prints for a commit that `tag` contains:
\* the tag, followed by a path of at most MaxSteps steps.  `tag` is the tag
\* the answer names.
RevPaths == { Join(p) : p \in UNION { StepSeqs(n) : n \in 0..MaxSteps } }
Described(tag, path) == [ok |-> TRUE, text |-> tag \o path, tag |-> tag]

\* Every answer of git describe the belongs_to check draws from.
AllDescribeAnswers ==
    { Described(t, p) : t \in {TagA, TagB, TagWip}, p \in RevPaths }

\* The answers the lead_time_prs run draws from: one of each kind.
DescribeAnswers ==
    { Described(TagA, << >>),
      Described(TagB, <<"~", "2">>),
      Described(TagWip, <<"~", "1">>),
      Described(TagA, <<"~", "1", "^", "2">>) }
DescribeErrors == { CannotDescribeError, OtherGitError }

----------------------------------------------------------------------------
(* The response cache and github_request. *)

\* hashlib.sha256(url).hexdigest(): one digest per URL.
Sha256(url) == <<"sha256", url>>

\* The cache file of a URL: GITHUB_CACHE/<digest>.
CacheFile(url) == <<GITHUB_CACHE, Sha256(url)>>

\* github_from_cache: the stored JSON, or "" when there is no cache file.
github_from_cache(url) ==
    IF CacheFile(url) \in DOMAIN cache THEN cache[CacheFile(url)] ELSE << >>

\* github_to_cache: the .cache folder after the dump (the file is created or
\* overwritten).
github_to_cache(url, jsondata) ==
    [f \in DOMAIN cache \cup {CacheFile(url)} |->
        IF f = CacheFile(url) THEN jsondata ELSE cache[f]]

RECURSIVE Paginate(_)
\* The pages the API serves `body` in: at least one, each but the last full.
Paginate(body) ==
    IF Len(body) <= PageSize THEN <<body>>
    ELSE <<SubSeq(body, 1, PageSize)>> \o
         Paginate(SubSeq(body, PageSize + 1, Len(body)))

\* `if cache := github_from_cache(url)`: the truth value of what was read.
CacheHit(cached) == cached # << >>

\* github_request(url), when the API would serve `body` and the failAt-th
\* request.get gets a non-2xx answer (failAt = 0: none does).  exited is
\* sys.exit(1) in _github_single_request.
github_request(url, body, failAt) ==
    LET cached == github_from_cache(url)
        pages  == Paginate(body)
        call(k) == <<url, k>>
    IN  IF CacheHit(cached)
        THEN [exited |-> FALSE, result |-> cached, cache |-> cache,
              calls |-> << >>]
        ELSE IF failAt \in 1..Len(pages)
        THEN [exited |-> TRUE, result |-> << >>, cache |-> cache,
              calls |-> [k \in 1..failAt |-> call(k)]]
        ELSE [exited |-> FALSE, result |-> Join(pages),
              cache |-> github_to_cache(url, Join(pages)),
              calls |-> [k \in 1..Len(pages) |-> call(k)]]

\* Where the failing request of a fetch of `body` may be; 0 is no failure.
FailPoints(body) == 0..Len(Paginate(body))

\* clone_repo(org, repo): the clone folders afterwards.
clone_repo(org, repo) == cloned \cup {<<org, repo>>}

----------------------------------------------------------------------------
(* belongs_to. *)

RECURSIVE UpToTilde(_)
\* The longest prefix without "~": what ([^~]*) takes.
UpToTilde(s) ==
    IF s = << >> \/ s[1] = "~" THEN << >> ELSE <<s[1]>> \o UpToTilde(Tail(s))

IsNumber(s) == s # << >> /\ \A i \in 1..Len(s) : s[i] \in Digits

\* re.search('^([^~]*)(?:$|~[0-9]+$)', s): << >> when there is no match,
\* else <<group 1>>.  Group 1 cannot stop before the first "~" or the end:
\* what follows it must be the end, or "~" and digits up to the end.
re_search_tag(s) ==
    LET g    == UpToTilde(s)
        rest == SubSeq(s, Len(g) + 1, Len(s))
    IN  IF rest = << >> \/ (rest[1] = "~" /\ IsNumber(Tail(rest)))
        THEN <<g>> ELSE << >>

\* CannotDescribe taking every failure of git describe for "no tag".
AnyGitError(text) == TRUE

\* 'fatal: cannot describe' in str(gce)
CannotDescribe(text) == Contains(text, <<"fatal:", "cannot", "describe">>)

\* belongs_to(commit_sha, repo), when git describe answers `answer`:
\* raised is the re-raised GitCommandError, value what is returned.
belongs_to(answer) ==
    IF ~answer.ok
    THEN IF CannotDescribe(answer.text)
         THEN [raised |-> FALSE, value |-> << >>]
         ELSE [raised |-> TRUE, value |-> << >>]
    ELSE [raised |-> FALSE, value |-> re_search_tag(answer.text)]

----------------------------------------------------------------------------
(* Durations and their averages. *)

\* pd.Timestamp(iso): the instant, in hours.
Timestamp(iso) == iso.date * HoursPerDay + iso.hour

\* Days rounding toward zero instead of down.
DaysTowardZero(hours) ==
    IF hours < 0 THEN -((-hours) \div HoursPerDay) ELSE hours \div HoursPerDay

\* astype('timedelta64[D]'): whole days, rounded down.
Days(hours) == hours \div HoursPerDay

Abs(n) == IF n < 0 THEN -n ELSE n

RECURSIVE Gcd(_, _)
Gcd(a, b) == IF b = 0 THEN a ELSE Gcd(b, a % b)

\* The number n/d (d > 0), in lowest terms.
Rat(n, d) ==
    LET g == Gcd(Abs(n), d) IN [num |-> n \div g, den |-> d \div g]

RatAdd(x, y) == Rat(x.num * y.den + y.num * x.den, x.den * y.den)

RECURSIVE Sum(_)
Sum(xs) == IF xs = << >> THEN 0 ELSE Head(xs) + Sum(Tail(xs))

\* np.average over one column.
np_average(xs) == Rat(Sum(xs), Len(xs))

\* One row of stats (with its release column) per row of prs_data.
StatsRows(rows) ==
    [i \in 1..Len(rows) |->
        [open_to_release_days   |-> Days(rows[i].released_at - rows[i].created_at),
         merged_to_release_days |-> Days(rows[i].released_at - rows[i].merged_at),
         release                |-> rows[i].release]]

Column(rows, col) == [i \in 1..Len(rows) |-> rows[i][col]]

RECURSIVE SortedSeq(_)
\* The strings of a set in ascending order.
SortedSeq(S) ==
    IF S = {} THEN << >>
    ELSE LET least == CHOOSE s \in S : \A t \in S : ~StrLess(t, s)
         IN  <<least>> \o SortedSeq(S \ {least})

\* The releases of rows in the order of their first row.
RECURSIVE FirstSeen(_)
FirstSeen(rows) ==
    IF rows = << >> THEN << >>
    ELSE LET before == FirstSeen(SubSeq(rows, 1, Len(rows) - 1))
             r      == rows[Len(rows)].release
         IN  IF \E i \in 1..Len(before) : before[i] = r
             THEN before ELSE Append(before, r)

\* GroupKeys without the sort: the keys in the order they are met.
GroupKeysAsMet(rows) == FirstSeen(rows)

\* The group keys of groupby('release'): groupby sorts them.
GroupKeys(rows) == SortedSeq({ rows[i].release : i \in 1..Len(rows) })

\* The rows of one group, in frame order.
GroupRows(rows, key) == SelectSeq(rows, LAMBDA r : r.release = key)

\* stats.groupby('release').mean(): one row per key, in key order.
groupby_mean(rows) ==
    LET keys == GroupKeys(rows)
    IN  [k \in 1..Len(keys) |->
            [release |-> keys[k],
             open_to_release_days |->
                 np_average(Column(GroupRows(rows, keys[k]), "open_to_release_days")),
             merged_to_release_days |->
                 np_average(Column(GroupRows(rows, keys[k]), "merged_to_release_days"))]]

RECURSIVE RatSum(_)
RatSum(xs) == IF xs = << >> THEN Rat(0, 1) ELSE RatAdd(Head(xs), RatSum(Tail(xs)))

\* RepoAverage taking the mean of the per-release means.
RepoAverageOfGroupMeans(rows) ==
    LET means == groupby_mean(rows)
        mean(col) == LET t == RatSum(Column(means, col))
                     IN  Rat(t.num, t.den * Len(means))
    IN  [open_to_release_days   |-> mean("open_to_release_days"),
         merged_to_release_days |-> mean("merged_to_release_days")]

\* stats.apply(np.average, axis=0): the repository-wide averages.
RepoAverage(rows) ==
    [open_to_release_days   |-> np_average(Column(rows, "open_to_release_days")),
     merged_to_release_days |-> np_average(Column(rows, "merged_to_release_days"))]

----------------------------------------------------------------------------
(* The state before a report starts: an empty .cache folder. *)

Init ==
    /\ pc = "start"
    /\ exitStatus = << >>
    /\ cache = << >>
    /\ netCalls = << >>
    /\ cloned = {}
    /\ repos = << >>
    /\ repoIdx = 1
    /\ releases_published = << >>
    /\ prs = << >>
    /\ prIdx = 0
    /\ pr = << >>
    /\ describeCalls = 0
    /\ reference = << >>
    /\ release = << >>
    /\ prs_data_list = << >>
    /\ stats = << >>
    /\ prs_all = << >>
    /\ charts = << >>
    /\ printed = << >>
    /\ data = << >>

\* sys.exit(1) after a failed request: nothing else changes.
Exit ==
    /\ pc' = "exit"
    /\ exitStatus' = <<1>>

----------------------------------------------------------------------------
(* lead_time_prs. *)

\* The pull request lists of length n the API may serve.
PrLists(n) ==
    { [i \in 1..n |->
          [number           |-> i,
           created_at       |-> f[i].created_at,
           merged_at        |-> f[i].merged_at,
           merge_commit_sha |-> IF f[i].merged_at = << >> THEN << >> ELSE <<i>>]]
      : f \in [1..n -> PrTimings] }

RECURSIVE PrsFetched(_)
\* The pull requests fetched for the repositories rs.
PrsFetched(rs) ==
    IF rs = << >> THEN 0
    ELSE Len(github_from_cache(PrsUrl(Head(rs), "closed"))) + PrsFetched(Tail(rs))

\* repos = [x['name'] for x in get_repos()]
LeadTimeGetRepos ==
    /\ pc = "start"
    /\ \E body \in RepoLists : \E failAt \in FailPoints(body) :
          LET r == github_request(ReposUrl, [i \in 1..Len(body) |-> [name |-> body[i]]], failAt)
          IN  /\ cache' = r.cache
              /\ netCalls' = netCalls \o r.calls
              /\ IF r.exited
                 THEN Exit /\ UNCHANGED <<repos, repoIdx>>
                 ELSE /\ repos' = [i \in 1..Len(r.result) |-> r.result[i].name]
                      /\ repoIdx' = 1
                      /\ pc' = "repo_loop"
                      /\ UNCHANGED exitStatus
    /\ UNCHANGED <<cloned, releases_published, prs, prIdx, pr, describeCalls,
                   reference, release, prs_data_list, stats, prs_all, charts,
                   printed, data>>

\* NoReleases without its test: no repository is passed over.
NeverNoReleases(releases_raw) == FALSE

\* `if not releases_raw`
NoReleases(releases_raw) == releases_raw = << >>

\* {r['tag_name']: r['published_at'] for r in releases_raw}: a later entry
\* of the list overwrites an earlier one of the same tag.
PublishedMap(releases_raw) ==
    [t \in { releases_raw[i].tag_name : i \in 1..Len(releases_raw) } |->
        LET last == CHOOSE i \in 1..Len(releases_raw) :
                        /\ releases_raw[i].tag_name = t
                        /\ \A j \in (i + 1)..Len(releases_raw) :
                               releases_raw[j].tag_name # t
        IN  releases_raw[last].published_at]

\* The head of `for repo in repos`: clone_repo, get_releases, and the skip
\* of a repository without releases.
LeadTimeNextRepo ==
    /\ pc = "repo_loop"
    /\ repoIdx <= Len(repos)
    /\ cloned' = clone_repo(GITHUB_ORG, repos[repoIdx])
    /\ \E body \in ReleaseLists : \E failAt \in FailPoints(body) :
          LET r == github_request(ReleasesUrl(repos[repoIdx]), body, failAt)
          IN  /\ cache' = r.cache
              /\ netCalls' = netCalls \o r.calls
              /\ IF r.exited
                 THEN Exit /\ UNCHANGED <<repoIdx, releases_published>>
                 ELSE IF NoReleases(r.result)
                 THEN /\ repoIdx' = repoIdx + 1
                      /\ UNCHANGED <<pc, exitStatus, releases_published>>
                 ELSE /\ releases_published' = PublishedMap(r.result)
                      /\ pc' = "get_prs"
                      /\ UNCHANGED <<repoIdx, exitStatus>>
    /\ UNCHANGED <<repos, prs, prIdx, pr, describeCalls, reference, release,
                   prs_data_list, stats, prs_all, charts, printed, data>>

\* prs = get_prs(repo, "closed"); prs_data_list = []
LeadTimeGetPrs ==
    /\ pc = "get_prs"
    /\ \E n \in 0..(MaxPrs - PrsFetched(repos)) : \E body \in PrLists(n) :
       \E failAt \in FailPoints(body) :
          LET r == github_request(PrsUrl(repos[repoIdx], "closed"), body, failAt)
          IN  /\ cache' = r.cache
              /\ netCalls' = netCalls \o r.calls
              /\ IF r.exited
                 THEN Exit /\ UNCHANGED <<prs, prIdx, prs_data_list>>
                 ELSE /\ prs' = r.result
                      /\ prIdx' = 0
                      /\ prs_data_list' = << >>
                      /\ pc' = "pr_loop"
                      /\ UNCHANGED exitStatus
    /\ UNCHANGED <<cloned, repos, repoIdx, releases_published, pr,
                   describeCalls, reference, release, stats, prs_all, charts,
                   printed, data>>

\* NotMerged without its test: every pull request counts as merged.
NeverNotMerged(p) == FALSE

\* `if not pr['merged_at']`
NotMerged(p) == p.merged_at = << >>

\* The head of `for pr in prs`: a pull request that was not merged is
\* passed over, a merged one goes to belongs_to.
LeadTimeNextPr ==
    /\ pc = "pr_loop"
    /\ prIdx < Len(prs)
    /\ prIdx' = prIdx + 1
    /\ IF NotMerged(prs[prIdx + 1])
       THEN UNCHANGED <<pc, pr>>
       ELSE pc' = "belongs_to" /\ pr' = <<prs[prIdx + 1]>>
    /\ UNCHANGED <<exitStatus, cache, netCalls, cloned, repos, repoIdx,
                   releases_published, prs, describeCalls, reference, release,
                   prs_data_list, stats, prs_all, charts, printed, data>>

\* release = belongs_to(pr['merge_commit_sha'], clone): git describe answers,
\* and belongs_to returns a tag, returns None or raises.
LeadTimeBelongsTo ==
    /\ pc = "belongs_to"
    /\ describeCalls' = describeCalls + 1
    /\ \E answer \in DescribeAnswers \cup DescribeErrors :
          LET b == belongs_to(answer)
          IN  /\ reference' = <<answer>>
              /\ IF b.raised
                 THEN /\ pc' = "raised"
                      /\ exitStatus' = <<1>>
                      /\ UNCHANGED release
                 ELSE /\ pc' = "filter"
                      /\ release' = <<b.value>>
                      /\ UNCHANGED exitStatus
    /\ UNCHANGED <<cache, netCalls, cloned, repos, repoIdx,
                   releases_published, prs, prIdx, pr, prs_data_list, stats,
                   prs_all, charts, printed, data>>

\* Unresolved without its second test: only None and "" are unresolved.
UnresolvedOnlyNone(rel, published) == ~Truthy(rel)

\* `if not release or release not in releases_published`
Unresolved(rel, published) == ~Truthy(rel) \/ rel[1] \notin DOMAIN published

\* The rest of the loop body: an unresolved pull request is passed over, a
\* resolved one is appended to prs_data_list.  releases_published[release]
\* raises KeyError for a tag that is not a key.
LeadTimeFilter ==
    /\ pc = "filter"
    /\ IF Unresolved(release[1], releases_published)
       THEN /\ pc' = "pr_loop"
            /\ UNCHANGED <<prs_data_list, exitStatus>>
       ELSE IF release[1][1] \in DOMAIN releases_published
       THEN /\ prs_data_list' = Append(prs_data_list,
                [number      |-> pr[1].number,
                 release     |-> release[1][1],
                 created_at  |-> Timestamp(pr[1].created_at),
                 merged_at   |-> Timestamp(pr[1].merged_at[1]),
                 released_at |-> Timestamp(releases_published[release[1][1]])])
            /\ pc' = "pr_loop"
            /\ UNCHANGED exitStatus
       ELSE /\ pc' = "raised"
            /\ exitStatus' = <<1>>
            /\ UNCHANGED prs_data_list
    /\ pr' = << >>
    /\ reference' = << >>
    /\ release' = << >>
    /\ UNCHANGED <<cache, netCalls, cloned, repos, repoIdx,
                   releases_published, prs, prIdx, describeCalls, stats,
                   prs_all, charts, printed, data>>

\* prs_all[repo] = ...: the dict afterwards, in insertion order.
DictPut(dict, key, value) ==
    IF \E i \in 1..Len(dict) : dict[i].key = key
    THEN [i \in 1..Len(dict) |->
             IF dict[i].key = key THEN [key |-> key, value |-> value] ELSE dict[i]]
    ELSE Append(dict, [key |-> key, value |-> value])

\* fig.savefig(file): the figures on disk afterwards.
SaveFigure(figs, fig) ==
    IF \E i \in 1..Len(figs) : figs[i].file = fig.file
    THEN [i \in 1..Len(figs) |-> IF figs[i].file = fig.file THEN fig ELSE figs[i]]
    ELSE Append(figs, fig)

\* After the loop over prs: the stats frame, the repository-wide averages,
\* the per-release means and their figure; nothing for an empty frame.
LeadTimeAggregate ==
    /\ pc = "pr_loop"
    /\ prIdx = Len(prs)
    /\ IF prs_data_list # << >>
       THEN /\ stats' = StatsRows(prs_data_list)
            /\ prs_all' = DictPut(prs_all, repos[repoIdx], RepoAverage(stats'))
            /\ charts' = SaveFigure(charts,
                   [file |-> <<"lead_time_", repos[repoIdx], ".png">>,
                    repo |-> repos[repoIdx],
                    plot |-> groupby_mean(stats')])
       ELSE UNCHANGED <<stats, prs_all, charts>>
    /\ repoIdx' = repoIdx + 1
    /\ pc' = "repo_loop"
    /\ UNCHANGED <<exitStatus, cache, netCalls, cloned, repos,
                   releases_published, prs, prIdx, pr, describeCalls,
                   reference, release, prs_data_list, printed, data>>

\* After the loop over repos: every entry of prs_all is printed.
LeadTimePrint ==
    /\ pc = "repo_loop"
    /\ repoIdx > Len(repos)
    /\ printed' = prs_all
    /\ pc' = "done"
    /\ UNCHANGED <<exitStatus, cache, netCalls, cloned, repos, repoIdx,
                   releases_published, prs, prIdx, pr, describeCalls,
                   reference, release, prs_data_list, stats, prs_all, charts,
                   data>>

lead_time_prs ==
    \/ LeadTimeGetRepos
    \/ LeadTimeNextRepo
    \/ LeadTimeGetPrs
    \/ LeadTimeNextPr
    \/ LeadTimeBelongsTo
    \/ LeadTimeFilter
    \/ LeadTimeAggregate
    \/ LeadTimePrint

Next == lead_time_prs

Spec == Init /\ [][Next]_vars

----------------------------------------------------------------------------
(* release_plot, run again and again over the same .cache folder. *)

InitReleasePlot ==
    /\ pc = "plot_start"
    /\ exitStatus = << >>
    /\ cache = << >>
    /\ netCalls = << >>
    /\ cloned = {}
    /\ repos = << >>
    /\ repoIdx = 1
    /\ releases_published = << >>
    /\ prs = << >>
    /\ prIdx = 0
    /\ pr = << >>
    /\ describeCalls = 0
    /\ reference = << >>
    /\ release = << >>
    /\ prs_data_list = << >>
    /\ stats = << >>
    /\ prs_all = << >>
    /\ charts = << >>
    /\ printed = << >>
    /\ data = << >>

\* repos = [x['name'] for x in get_repos()]; data = []
ReleasePlotGetRepos ==
    /\ pc = "plot_start"
    /\ \E body \in RepoLists : \E failAt \in FailPoints(body) :
          LET r == github_request(ReposUrl, [i \in 1..Len(body) |-> [name |-> body[i]]], failAt)
          IN  /\ cache' = r.cache
              /\ netCalls' = netCalls \o r.calls
              /\ IF r.exited
                 THEN Exit /\ UNCHANGED <<repos, repoIdx, data>>
                 ELSE /\ repos' = [i \in 1..Len(r.result) |-> r.result[i].name]
                      /\ repoIdx' = 1
                      /\ data' = << >>
                      /\ pc' = "plot_loop"
                      /\ UNCHANGED exitStatus
    /\ UNCHANGED <<cloned, releases_published, prs, prIdx, pr, describeCalls,
                   reference, release, prs_data_list, stats, prs_all, charts,
                   printed>>

\* release['published_at'].split('T')[0]: the date part.
DateOf(iso) == iso.date

\* One pass of `for repo in repos`: a (date, repo, tag) per release.
ReleasePlotNextRepo ==
    /\ pc = "plot_loop"
    /\ repoIdx <= Len(repos)
    /\ \E body \in ReleaseLists : \E failAt \in FailPoints(body) :
          LET r == github_request(ReleasesUrl(repos[repoIdx]), body, failAt)
          IN  /\ cache' = r.cache
              /\ netCalls' = netCalls \o r.calls
              /\ IF r.exited
                 THEN Exit /\ UNCHANGED <<repoIdx, data>>
                 ELSE /\ data' = data \o
                          [i \in 1..Len(r.result) |->
                              <<DateOf(r.result[i].published_at),
                                repos[repoIdx], r.result[i].tag_name>>]
                      /\ repoIdx' = repoIdx + 1
                      /\ UNCHANGED <<pc, exitStatus>>
    /\ UNCHANGED <<cloned, repos, releases_published, prs, prIdx, pr,
                   describeCalls, reference, release, prs_data_list, stats,
                   prs_all, charts, printed>>

RECURSIVE SortedByDate(_)
\* sorted(data, key=lambda x: x[0]): stable, by date.
SortedByDate(d) ==
    IF d = << >> THEN << >>
    ELSE LET rest == SortedByDate(SubSeq(d, 1, Len(d) - 1))
             x    == d[Len(d)]
             k    == Cardinality({ i \in 1..Len(rest) : rest[i][1] <= x[1] })
         IN  SubSeq(rest, 1, k) \o <<x>> \o SubSeq(rest, k + 1, Len(rest))

\* plot_releases(repos, sorted(data)): releases.png.
ReleasePlotRender ==
    /\ pc = "plot_loop"
    /\ repoIdx > Len(repos)
    /\ charts' = SaveFigure(charts,
           [file |-> <<"releases.png">>, repo |-> "", plot |-> SortedByDate(data)])
    /\ pc' = "done"
    /\ UNCHANGED <<exitStatus, cache, netCalls, cloned, repos, repoIdx,
                   releases_published, prs, prIdx, pr, describeCalls,
                   reference, release, prs_data_list, stats, prs_all, printed,
                   data>>

\* The script is started again: a new process over the files of the last.
ReleasePlotAgain ==
    /\ pc \in {"done", "exit"}
    /\ pc' = "plot_start"
    /\ exitStatus' = << >>
    /\ netCalls' = << >>
    /\ repos' = << >>
    /\ repoIdx' = 1
    /\ data' = << >>
    /\ UNCHANGED <<cache, cloned, releases_published, prs, prIdx, pr,
                   describeCalls, reference, release, prs_data_list, stats,
                   prs_all, charts, printed>>

release_plot ==
    \/ ReleasePlotGetRepos
    \/ ReleasePlotNextRepo
    \/ ReleasePlotRender
    \/ ReleasePlotAgain

SpecReleasePlot == InitReleasePlot /\ [][release_plot]_vars

----------------------------------------------------------------------------
(* belongs_to on its own: called with every answer git describe may give. *)

InitBelongsTo ==
    /\ pc = "call"
    /\ exitStatus = << >>
    /\ cache = << >>
    /\ netCalls = << >>
    /\ cloned = {}
    /\ repos = << >>
    /\ repoIdx = 1
    /\ releases_published = << >>
    /\ prs = << >>
    /\ prIdx = 0
    /\ pr = << >>
    /\ describeCalls = 0
    /\ reference = << >>
    /\ release = << >>
    /\ prs_data_list = << >>
    /\ stats = << >>
    /\ prs_all = << >>
    /\ charts = << >>
    /\ printed = << >>
    /\ data = << >>

BelongsToCall ==
    /\ pc \in {"call", "returned", "call_raised"}
    /\ \E answer \in AllDescribeAnswers \cup DescribeErrors :
          LET b == belongs_to(answer)
          IN  /\ reference' = <<answer>>
              /\ release' = IF b.raised THEN << >> ELSE <<b.value>>
              /\ pc' = IF b.raised THEN "call_raised" ELSE "returned"
    /\ UNCHANGED <<exitStatus, cache, netCalls, cloned, repos, repoIdx,
                   releases_published, prs, prIdx, pr, describeCalls,
                   prs_data_list, stats, prs_all, charts, printed, data>>

SpecBelongsTo == InitBelongsTo /\ [][BelongsToCall]_vars

----------------------------------------------------------------------------
(* Helpers of the properties below. *)

\* The JSON cached for a URL, << >> when nothing is (or an empty list is).
Cached(url) == github_from_cache(url)
IsCached(url) == CacheFile(url) \in DOMAIN cache

TagNames(releases_raw) ==
    { releases_raw[i].tag_name : i \in 1..Len(releases_raw) }

\* The figure saved last, and the entry of prs_all added last: both are
\* written in the step that writes stats.
LastChart == charts[Len(charts)]
LastAverages == prs_all[Len(prs_all)].value

RECURSIVE SetSum(_, _, _)
\* The sum of column col of rows over the row numbers in S.
SetSum(rows, col, S) ==
    IF S = {} THEN 0
    ELSE LET i == CHOOSE j \in S : TRUE
         IN  rows[i][col] + SetSum(rows, col, S \ {i})

DurationColumns == {"open_to_release_days", "merged_to_release_days"}

PlotTags(chart) == [k \in 1..Len(chart.plot) |-> chart.plot[k].release]

\* prs_data_list and stats describe the same repository: the loop over its
\* pull requests has ended and no later one has begun.
Aggregated ==
    /\ pc \in {"repo_loop", "get_prs", "done", "exit"}
    /\ prs_data_list # << >>

InPrLoop == pc \in {"pr_loop", "belongs_to", "filter", "raised"}

RECURSIVE MergedIn(_)
\* How many pull requests of a list were merged.
MergedIn(list) ==
    IF list = << >> THEN 0
    ELSE (IF Head(list).merged_at = << >> THEN 0 ELSE 1) + MergedIn(Tail(list))

RECURSIVE MergedFetched(_)
\* How many merged pull requests were fetched for the repositories rs.
MergedFetched(rs) ==
    IF rs = << >> THEN 0
    ELSE MergedIn(Cached(PrsUrl(Head(rs), "closed"))) + MergedFetched(Tail(rs))

\* The requests this step sends to the API.
NewCalls ==
    IF Len(netCalls') > Len(netCalls)
    THEN { netCalls'[i] : i \in (Len(netCalls) + 1)..Len(netCalls') }
    ELSE {}

\* Every row of prs_data_list names a key of releases_published.
RowsArePublished ==
    InPrLoop =>
        \A i \in 1..Len(prs_data_list) :
            prs_data_list[i].release \in DOMAIN releases_published

\* Every group of a saved figure names a release fetched for its repository.
ChartsArePublished ==
    \A c \in 1..Len(charts) : \A k \in 1..Len(charts[c].plot) :
        charts[c].plot[k].release \in TagNames(Cached(ReleasesUrl(charts[c].repo)))

----------------------------------------------------------------------------
(* C1.  A pull request that is unresolved (belongs_to returned None, or a  *)
(* tag that is not a key of releases_published) adds no row to             *)
(* prs_data_list and changes no statistics, and the loop goes on to the    *)
(* next pull request; every row of prs_data_list, and every group of a     *)
(* saved figure, names a published release of its repository.              *)
C1_UnresolvedDropped ==
    [][ /\ (pc = "filter" /\ (release[1] = << >>
                                \/ release[1][1] \notin DOMAIN releases_published)) =>
               (/\ prs_data_list' = prs_data_list
                /\ pc' = "pr_loop"
                /\ UNCHANGED <<stats, prs_all, charts, printed, exitStatus,
                               repoIdx, prIdx>>)
        /\ RowsArePublished'
        /\ ChartsArePublished' ]_vars

\* One repository, three merged pull requests queried, one of them dropped,
\* and the run came to its end with the statistics of the other two.
C1_Witness ==
    /\ pc = "done"
    /\ Len(repos) = 1
    /\ describeCalls = 3
    /\ Len(stats) = 2
    /\ printed # << >>

\* C2.  Every row of stats is in exactly one group of the figure, the group
\* of its release; every group's mean of a duration column is the sum of the
\* column over the group's rows divided by their number; and the
\* repository-wide mean is the sum over all rows divided by their number.
C2_MeansAreArithmetic ==
    stats # << >> =>
        /\ \A i \in 1..Len(stats) :
               Cardinality({ k \in 1..Len(LastChart.plot) :
                               LastChart.plot[k].release = stats[i].release }) = 1
        /\ \A k \in 1..Len(LastChart.plot) :
               LET members == { i \in 1..Len(stats) :
                                  stats[i].release = LastChart.plot[k].release }
               IN  /\ members # {}
                   /\ \A col \in DurationColumns :
                          /\ LastChart.plot[k][col].den > 0
                          /\ LastChart.plot[k][col].num * Cardinality(members)
                               = LastChart.plot[k][col].den * SetSum(stats, col, members)
        /\ \A col \in DurationColumns :
               /\ LastAverages[col].den > 0
               /\ LastAverages[col].num * Len(stats)
                    = LastAverages[col].den * SetSum(stats, col, 1..Len(stats))

\* Three rows in two groups whose means do not average to the mean of the
\* rows.
C2_Witness ==
    /\ Len(stats) = 3
    /\ Len(LastChart.plot) = 2
    /\ LET m == LastChart.plot
       IN  RatAdd(m[1].open_to_release_days, m[2].open_to_release_days)
             # RatAdd(LastAverages.open_to_release_days,
                      LastAverages.open_to_release_days)

\* C3.  A repository whose release list is empty is passed over: the loop
\* has gone on to the next repository, its pull requests were never
\* requested, and it has no figure and no entry in prs_all.
C3_NoReleasesSkipped ==
    \A k \in 1..Len(repos) :
        (IsCached(ReleasesUrl(repos[k])) /\ Cached(ReleasesUrl(repos[k])) = << >>)
        => /\ k < repoIdx
           /\ ~IsCached(PrsUrl(repos[k], "closed"))
           /\ \A i \in 1..Len(netCalls) : netCalls[i][1] # PrsUrl(repos[k], "closed")
           /\ \A c \in 1..Len(charts) : charts[c].repo # repos[k]
           /\ \A a \in 1..Len(prs_all) : prs_all[a].key # repos[k]
           /\ \A a \in 1..Len(printed) : printed[a].key # repos[k]

\* The first repository has no releases and the pull requests of the second
\* are being processed.
C3_Witness ==
    /\ Len(repos) = 2
    /\ IsCached(ReleasesUrl(repos[1]))
    /\ Cached(ReleasesUrl(repos[1])) = << >>
    /\ repoIdx = 2
    /\ pc = "filter"

\* C4.  When git describe succeeds, belongs_to returns the tag the answer
\* names, whatever follows the tag in the answer.
C4_TagReturned ==
    (reference # << >> /\ reference[1].ok)
        => /\ pc = "returned"
           /\ release = << <<reference[1].tag>> >>

\* C5.  A git describe failure other than "cannot describe" is never turned
\* into an unresolved pull request: it is raised, the repository gets no
\* figure and no entry in prs_all, and nothing is printed; only "cannot
\* describe" is returned as None.
C5_OtherFailureRaised ==
    /\ (pc = "filter" /\ ~reference[1].ok) =>
           (reference[1] = CannotDescribeError /\ release = << << >> >>)
    /\ (pc = "raised") =>
           /\ reference # << >>
           /\ ~reference[1].ok
           /\ reference[1] # CannotDescribeError
           /\ exitStatus = <<1>>
           /\ \A c \in 1..Len(charts) : charts[c].repo # repos[repoIdx]
           /\ \A a \in 1..Len(prs_all) : prs_all[a].key # repos[repoIdx]
           /\ printed = << >>

\* The failure is raised in the second repository, after a pull request of
\* it was recorded and after the first repository got its figure.
C5_Witness ==
    /\ pc = "raised"
    /\ repoIdx = 2
    /\ Len(charts) = 1
    /\ prs_data_list # << >>

\* C6.  When a request gets a non-2xx answer the run ends with exit status
\* 1, and no figure was saved and nothing printed before.
C6_NoPartialOutput ==
    pc = "exit" => (exitStatus = <<1>> /\ charts = << >> /\ printed = << >>)

\* C7.  Once a URL has a cache file, no request is sent for it again and the
\* file stays.
C7_ReadThrough ==
    [][ /\ \A call \in NewCalls : ~IsCached(call[1])
        /\ DOMAIN cache \subseteq DOMAIN cache' ]_vars

\* C8.  Each duration of stats is the whole number of days below or at the
\* difference of the two timestamps, released_at being the publish time of
\* the row's release; a release published before the merge gives a negative
\* number of days.
C8_FloorDays ==
    /\ InPrLoop =>
          \A i \in 1..Len(prs_data_list) :
              LET rec == prs_data_list[i]
                  pub == releases_published[rec.release]
              IN  /\ rec.released_at = pub.date * HoursPerDay + pub.hour
                  /\ rec.created_at =
                        prs[rec.number].created_at.date * HoursPerDay
                          + prs[rec.number].created_at.hour
                  /\ rec.merged_at =
                        prs[rec.number].merged_at[1].date * HoursPerDay
                          + prs[rec.number].merged_at[1].hour
    /\ Aggregated =>
          /\ Len(stats) = Len(prs_data_list)
          /\ \A i \in 1..Len(stats) :
                 LET rec    == prs_data_list[i]
                     open   == stats[i].open_to_release_days
                     merged == stats[i].merged_to_release_days
                 IN  /\ open * HoursPerDay <= rec.released_at - rec.created_at
                     /\ rec.released_at - rec.created_at < (open + 1) * HoursPerDay
                     /\ merged * HoursPerDay <= rec.released_at - rec.merged_at
                     /\ rec.released_at - rec.merged_at < (merged + 1) * HoursPerDay
                     /\ stats[i].release = rec.release

\* A row whose release was published less than a day before the merge.
C8_Witness ==
    /\ Aggregated
    /\ \E i \in 1..Len(stats) :
           /\ stats[i].merged_to_release_days = -1
           /\ prs_data_list[i].released_at - prs_data_list[i].merged_at > -HoursPerDay

\* C9, in the order of first meeting.  The groups of a figure are in the order in which their
\* releases are first met in the rows.
C9_EncounterOrder ==
    stats # << >> => PlotTags(LastChart) = FirstSeen(stats)

\* C9, in sorted order.  The groups of a figure are the releases of the rows, each
\* once, in ascending order of their tag names as strings.
C9_SortedOrder ==
    stats # << >> =>
        LET tags == PlotTags(LastChart)
        IN  /\ { tags[k] : k \in 1..Len(tags) }
                 = { stats[i].release : i \in 1..Len(stats) }
            /\ \A k \in 1..Len(tags) : \A l \in 1..Len(tags) :
                   k < l => StrLess(tags[k], tags[l])

\* v0.9.0 is met before v0.10.0 and the figure lists v0.10.0 first.
C9_Witness ==
    /\ Len(stats) = 2
    /\ stats[1].release = TagA
    /\ stats[2].release = TagB
    /\ PlotTags(LastChart) = <<TagB, TagA>>

\* C10.  A pull request that was not merged never reaches belongs_to and is
\* never a row of prs_data_list: git describe is asked at most once per
\* merged pull request.
C10_UnmergedExcluded ==
    /\ pc \in {"belongs_to", "filter"} =>
          /\ pr # << >>
          /\ pr[1].merged_at # << >>
          /\ pr[1] = prs[prIdx]
    /\ \A i \in 1..Len(prs_data_list) :
           prs[prs_data_list[i].number].merged_at # << >>
    /\ describeCalls <= MergedFetched(repos)

\* A run that ended with statistics for a repository one of whose pull
\* requests was not merged, and asked git describe less often than it took
\* pull requests.
C10_Witness ==
    /\ pc = "done"
    /\ stats # << >>
    /\ \E i \in 1..Len(prs) : prs[i].merged_at = << >>
    /\ describeCalls < PrsFetched(repos)

====
